---------------------------- MODULE Spec2Model ----------------------------
(***************************************************************************)
(* A model of the two stateful parts of path.js (src/src/path.ts):         *)
(*   - Path.list, the lazy, recursive, depth-bounded directory walker;     *)
(*   - the temporary-directory registry: Path.tempDir / tempDirSync,       *)
(*     TempDir.destroy / destroySync, tempDirRemoved and the 'exit' sweep. *)
(* A path is a sequence of names, a name is a sequence of characters, so   *)
(* that startsWith('.') and path.resolve(dir, name) are computed.          *)
(***************************************************************************)
EXTENDS Integers, Sequences, FiniteSets, TLC

VARIABLES
  \* ---- Path.list ----
  tree,        \* the directory tree on disk: tree[k] is what readdir returns for the k-1 deep spine directory
  denied,      \* the directories the provider refuses to enumerate
  options,     \* the options object handed to list() on the root
  stack,       \* the generator frames of list(), innermost last
  status,      \* "suspended" | "running" | "done" | "failed" : the state of the async generator
  out,         \* the paths delivered to the consumer so far, in order
  reads,       \* the directories readdir was called on so far, in order
  errno,       \* the error code the provider gives for a refused directory
  listError,      \* the error the consumer received from the generator, <<>> when none
  asked,       \* the number of items the consumer has requested so far
  \* ---- temporary directories ----
  disk,            \* the paths that exist on disk below the temp area
  locked,          \* the directories whose removal the provider refuses (EACCES)
  tempDirCleanup,  \* the registry: let tempDirCleanup: string[]
  handles,         \* the locations of the TempDir objects returned to callers
  ops,             \* the asynchronous tempDir() and destroy() calls in flight
  nextId,          \* the number of directories mkdtemp has created
  nCalls,          \* the number of tempDir/tempDirSync/destroy/destroySync calls made
  phase,           \* "running" | "sweeping" | "exited": the life of the process
  sweepIdx,        \* the position of the 'exit' handler's loop in tempDirCleanup
  attempted,       \* the rmSync calls of the 'exit' handler, in order: location and error code
  log,             \* what happened to the temp directories: a set of events
  sweepError,      \* the error the 'exit' handler threw, <<>> when none
  \* ---- new Path(...parts) ----
  parts,           \* the argument list handed to the constructor
  location         \* this._path of the constructed object: <<>> before construction, <<string>> after

listVars == <<tree, denied, options, stack, status, out, reads, errno, listError, asked>>
tempVars == <<disk, locked, tempDirCleanup, handles, ops, nextId, nCalls, phase,
              sweepIdx, attempted, log, sweepError>>
ctorVars == <<parts, location>>
vars == <<tree, denied, options, stack, status, out, reads, errno, listError, asked,
          disk, locked, tempDirCleanup, handles, ops, nextId, nCalls, phase,
          sweepIdx, attempted, log, sweepError, parts, location>>

(***************************************************************************)
(* Bounds of the model.                                                    *)
(***************************************************************************)
TreeDepth == 4      \* the deepest chain of nested directories below the root
MaxMaxDepth == 3    \* the largest maxDepth option tried
MaxTempDirs == 2    \* the number of temporary directories one run creates
MaxCalls == 4       \* the number of tempDir and destroy calls one run makes
MaxParts == 2       \* the longest argument list handed to the constructor
MaxPartLen == 2     \* the longest string among the constructor's arguments

(***************************************************************************)
(* JavaScript values: an optional value is <<>> when undefined and <<v>>   *)
(* when it is v.                                                           *)
(***************************************************************************)
Undefined == <<>>
Some(v) == <<v>>
OptBool == {Undefined, Some(TRUE), Some(FALSE)}

\* String.prototype.startsWith for a one-character prefix.
StartsWith(name, ch) == Len(name) >= 1 /\ name[1] = ch

\* path.resolve(this._path, file.name): the directory's path extended by one segment.
Resolve(dir, name) == Append(dir, name)

Last(s) == s[Len(s)]
Front(s) == SubSeq(s, 1, Len(s) - 1)
Range(s) == {s[i] : i \in 1..Len(s)}
IsPrefix(p, q) == Len(p) <= Len(q) /\ SubSeq(q, 1, Len(p)) = p

(***************************************************************************)
(* The directory trees listed. A Dirent is what readdir({withFileTypes})   *)
(* returns for one entry.                                                  *)
(***************************************************************************)
File(n) == [name |-> n, isDir |-> FALSE]
Dir(n) == [name |-> n, isDir |-> TRUE]

nF == <<"f">>
nD == <<"d">>
nHF == <<".", "h">>
nHD == <<".", "d">>

\* What one directory of the spine d/d/d/... may hold, in the order readdir returns it.
Layouts ==
  { <<File(nF), Dir(nD)>>,
    <<Dir(nHD), File(nHF), Dir(nD), File(nF)>> }

\* A hidden directory holds a visible file, a hidden file and an empty visible directory.
HiddenDirContent == <<File(nF), File(nHF), Dir(nD)>>

Trees == UNION {[1..n -> Layouts] : n \in 1..TreeDepth}

Root == <<>>

Spine(p) == \A i \in 1..Len(p) : p[i] = nD

\* fsPromises.readdir(p, {withFileTypes: true}) on a readable directory of the tree t.
ReadDirOf(t, p) ==
  IF Spine(p) /\ Len(p) < Len(t) THEN t[Len(p) + 1]
  ELSE IF Len(p) >= 1 /\ Last(p) = nHD /\ Spine(Front(p)) /\ Len(p) <= Len(t)
            /\ (\E j \in 1..Len(t[Len(p)]) : t[Len(p)][j] = Dir(nHD))
       THEN HiddenDirContent
       ELSE <<>>

readdir(p) == ReadDirOf(tree, p)

RECURSIVE EntriesBelow(_)
\* Every entry of the tree below directory p, as [path, isDir].
EntriesBelow(p) ==
  LET files == readdir(p)
      here == {[path |-> Resolve(p, files[j].name), isDir |-> files[j].isDir] : j \in 1..Len(files)}
  IN here \cup UNION {EntriesBelow(e.path) : e \in {x \in here : x.isDir}}

Entries == EntriesBelow(Root)
EntryPaths == {e.path : e \in Entries}
DirPaths == {e.path : e \in {x \in Entries : x.isDir}}

(***************************************************************************)
(* Path.list: an async generator. A frame is one activation of list():     *)
(* the directory it lists, the options it was called with, the readdir     *)
(* result, the loop index and where in the loop body it stands.            *)
(***************************************************************************)
MaxDepths == {Undefined} \cup {Some(k) : k \in (0 - 1)..MaxMaxDepth}

OptionsSet == [dir : OptBool, hidden : OptBool, recursive : OptBool, maxDepth : MaxDepths]

Frame(p, o) == [path |-> p, options |-> o, files |-> <<>>, i |-> 0, pc |-> "readdir"]

Top == stack[Len(stack)]
SetTop(f) == [stack EXCEPT ![Len(stack)] = f]
file == Top.files[Top.i]
full == Resolve(Top.path, file.name)
AtEntry == status = "running" /\ Len(stack) > 0 /\ Top.pc = "for" /\ Top.i <= Len(Top.files)

\* A slip: only an explicit hidden: false hides entries, an omitted option shows them.
HiddenSkip_OnlyWhenFalse(o, name) == o.hidden = Some(FALSE) /\ StartsWith(name, ".")

\* line 295: if (options.hidden !== true && file.name.startsWith('.')) continue;
HiddenSkip(o, name) == o.hidden # Some(TRUE) /\ StartsWith(name, ".")

\* A slip: directories are yielded only when they are not walked.
YieldsDir_UnlessRecursive(o) == o.dir = Some(TRUE) /\ o.recursive # Some(TRUE)

\* line 299: if (options.dir === true)
YieldsDir(o) == o.dir = Some(TRUE)

\* A slip: without a maxDepth nothing is walked.
Recurses_NeedsMaxDepth(o) ==
  o.recursive = Some(TRUE) /\ o.maxDepth # Undefined /\ o.maxDepth # Some(1)

\* A slip: an omitted recursive option counts as true.
Recurses_UnlessFalse(o) == o.recursive # Some(FALSE) /\ o.maxDepth # Some(1)

\* A slip: the walk stops descending when maxDepth has reached 0, not 1.
Recurses_UntilZero(o) == o.recursive = Some(TRUE) /\ o.maxDepth # Some(0)

\* line 300: if (options.recursive === true && options.maxDepth !== 1)
Recurses(o) == o.recursive = Some(TRUE) /\ o.maxDepth # Some(1)

\* line 301: maxDepth === undefined ? options : {...options, maxDepth: maxDepth - 1}
ChildOptions(o) ==
  IF o.maxDepth = Undefined THEN o ELSE [o EXCEPT !.maxDepth = Some(o.maxDepth[1] - 1)]

\* The consumer asks for the next item (for await / next()).
Request ==
  /\ status = "suspended"
  /\ status' = "running"
  /\ asked' = asked + 1
  /\ UNCHANGED <<tree, denied, options, stack, out, reads, errno, listError>>
  /\ UNCHANGED tempVars
  /\ UNCHANGED ctorVars

\* A slip: the rejection of readdir is caught and replaced by an error of list's own.
ReadDir_WrapsError ==
  /\ status = "running" /\ Len(stack) > 0 /\ Top.pc = "readdir"
  /\ reads' = Append(reads, Top.path)
  /\ IF Top.path \in denied
     THEN /\ status' = "failed"
          /\ listError' = Some("ERR_LIST")
          /\ stack' = <<>>
     ELSE /\ stack' = SetTop([Top EXCEPT !.files = readdir(Top.path), !.i = 1, !.pc = "for"])
          /\ UNCHANGED <<status, listError>>
  /\ UNCHANGED <<tree, denied, options, out, errno, asked>>
  /\ UNCHANGED tempVars
  /\ UNCHANGED ctorVars

\* A slip: a directory that cannot be read is taken for an empty one and skipped.
ReadDir_SkipsUnreadable ==
  /\ status = "running" /\ Len(stack) > 0 /\ Top.pc = "readdir"
  /\ reads' = Append(reads, Top.path)
  /\ stack' = SetTop([Top EXCEPT !.files = IF Top.path \in denied THEN <<>> ELSE readdir(Top.path),
                                  !.i = 1, !.pc = "for"])
  /\ UNCHANGED <<tree, denied, options, out, errno, asked, status, listError>>
  /\ UNCHANGED tempVars
  /\ UNCHANGED ctorVars

RECURSIVE Reverse(_)
\* The sequence last to first.
Reverse(seq) == IF seq = <<>> THEN <<>> ELSE Append(Reverse(Tail(seq)), Head(seq))

\* A slip: the entries of a directory are walked last to first.
ReadDir_ReversesEntries ==
  /\ status = "running" /\ Len(stack) > 0 /\ Top.pc = "readdir"
  /\ reads' = Append(reads, Top.path)
  /\ IF Top.path \in denied
     THEN /\ status' = "failed"
          /\ listError' = Some(errno)
          /\ stack' = <<>>
     ELSE /\ stack' = SetTop([Top EXCEPT !.files = Reverse(readdir(Top.path)), !.i = 1,
                                         !.pc = "for"])
          /\ UNCHANGED <<status, listError>>
  /\ UNCHANGED <<tree, denied, options, out, errno, asked>>
  /\ UNCHANGED tempVars
  /\ UNCHANGED ctorVars

\* line 291: const files = await fsPromises.readdir(this._path, {withFileTypes: true});
\* A rejected readdir throws out of every enclosing yield*: the generator ends in error.
ReadDir ==
  /\ status = "running" /\ Len(stack) > 0 /\ Top.pc = "readdir"
  /\ reads' = Append(reads, Top.path)
  /\ IF Top.path \in denied
     THEN /\ status' = "failed"
          /\ listError' = Some(errno)
          /\ stack' = <<>>
     ELSE /\ stack' = SetTop([Top EXCEPT !.files = readdir(Top.path), !.i = 1, !.pc = "for"])
          /\ UNCHANGED <<status, listError>>
  /\ UNCHANGED <<tree, denied, options, out, errno, asked>>
  /\ UNCHANGED tempVars
  /\ UNCHANGED ctorVars

\* A slip: the loop does not move past a hidden entry.
SkipHidden_Stuck ==
  /\ AtEntry
  /\ HiddenSkip(Top.options, file.name)
  /\ UNCHANGED <<tree, denied, options, stack, status, out, reads, errno, listError, asked>>
  /\ UNCHANGED tempVars
  /\ UNCHANGED ctorVars

\* line 295: a hidden entry is skipped.
SkipHidden ==
  /\ AtEntry
  /\ HiddenSkip(Top.options, file.name)
  /\ stack' = SetTop([Top EXCEPT !.i = @ + 1])
  /\ UNCHANGED <<tree, denied, options, status, out, reads, errno, listError, asked>>
  /\ UNCHANGED tempVars
  /\ UNCHANGED ctorVars

\* line 299: a directory is yielded; the generator suspends before line 300.
YieldDir ==
  /\ AtEntry
  /\ ~HiddenSkip(Top.options, file.name)
  /\ file.isDir
  /\ YieldsDir(Top.options)
  /\ out' = Append(out, full)
  /\ status' = "suspended"
  /\ stack' = SetTop([Top EXCEPT !.pc = "recurse"])
  /\ UNCHANGED <<tree, denied, options, reads, errno, listError, asked>>
  /\ UNCHANGED tempVars
  /\ UNCHANGED ctorVars

\* The generator stands at line 300 for the directory file: after its yield, or
\* straight from line 298 when directories are not yielded.
AtRecurse ==
  /\ status = "running" /\ Len(stack) > 0
  /\ \/ Top.pc = "recurse"
     \/ /\ Top.pc = "for" /\ Top.i <= Len(Top.files)
        /\ ~HiddenSkip(Top.options, file.name)
        /\ file.isDir
        /\ ~YieldsDir(Top.options)

\* lines 300-301: yield* new Path(full).list(...): a new activation for the subdirectory.
Descend ==
  /\ AtRecurse
  /\ Recurses(Top.options)
  /\ stack' = Append(SetTop([Top EXCEPT !.i = @ + 1, !.pc = "for"]),
                     Frame(full, ChildOptions(Top.options)))
  /\ UNCHANGED <<tree, denied, options, status, out, reads, errno, listError, asked>>
  /\ UNCHANGED tempVars
  /\ UNCHANGED ctorVars

\* line 300 false: the loop goes on with the next entry.
NoDescend ==
  /\ AtRecurse
  /\ ~Recurses(Top.options)
  /\ stack' = SetTop([Top EXCEPT !.i = @ + 1, !.pc = "for"])
  /\ UNCHANGED <<tree, denied, options, status, out, reads, errno, listError, asked>>
  /\ UNCHANGED tempVars
  /\ UNCHANGED ctorVars

\* A slip: the file is handed over but the walk does not wait for the next request.
YieldFile_KeepsRunning ==
  /\ AtEntry
  /\ ~HiddenSkip(Top.options, file.name)
  /\ ~file.isDir
  /\ out' = Append(out, full)
  /\ stack' = SetTop([Top EXCEPT !.i = @ + 1])
  /\ UNCHANGED <<tree, denied, options, reads, errno, listError, asked, status>>
  /\ UNCHANGED tempVars
  /\ UNCHANGED ctorVars

\* line 304: anything that is not a directory is yielded.
YieldFile ==
  /\ AtEntry
  /\ ~HiddenSkip(Top.options, file.name)
  /\ ~file.isDir
  /\ out' = Append(out, full)
  /\ status' = "suspended"
  /\ stack' = SetTop([Top EXCEPT !.i = @ + 1])
  /\ UNCHANGED <<tree, denied, options, reads, errno, listError, asked>>
  /\ UNCHANGED tempVars
  /\ UNCHANGED ctorVars

\* line 306-307: the loop is over, this activation returns.
Return ==
  /\ status = "running" /\ Len(stack) > 0 /\ Top.pc = "for" /\ Top.i > Len(Top.files)
  /\ stack' = Front(stack)
  /\ status' = IF Len(stack) = 1 THEN "done" ELSE status
  /\ UNCHANGED <<tree, denied, options, out, reads, errno, listError, asked>>
  /\ UNCHANGED tempVars
  /\ UNCHANGED ctorVars

DeniedChoices == {{}, {Root}, {<<nD>>}}

\* The ways readdir fails: the directory is gone, is not a directory, may not be read.
ReaddirErrors == {"ENOENT", "ENOTDIR", "EACCES"}

\* new Path(root).list(options): the generator object exists, nothing has run.
ListInit ==
  /\ tree \in Trees
  /\ denied \in DeniedChoices
  /\ options \in OptionsSet
  /\ stack = <<Frame(Root, options)>>
  /\ status = "suspended"
  /\ out = <<>>
  /\ reads = <<>>
  /\ errno \in IF denied = {} THEN {"EACCES"} ELSE ReaddirErrors
  /\ listError = <<>>
  /\ asked = 0

ListNext ==
  \/ Request
  \/ ReadDir
  \/ SkipHidden
  \/ YieldDir
  \/ Descend
  \/ NoDescend
  \/ YieldFile
  \/ Return

\* let tempDirCleanup: string[] = []; nothing allocated, the process is running.
TempInit ==
  /\ disk = {}
  /\ locked = {}
  /\ tempDirCleanup = <<>>
  /\ handles = {}
  /\ ops = {}
  /\ nextId = 0
  /\ nCalls = 0
  /\ phase = "running"
  /\ sweepIdx = 0
  /\ attempted = <<>>
  /\ log = {}
  /\ sweepError = <<>>

\* No Path object is under construction.
CtorIdle ==
  /\ parts = <<>>
  /\ location = Undefined

\* A run of list(): the temporary-directory registry is left alone.
InitList == ListInit /\ TempInit /\ CtorIdle

SpecList == InitList /\ [][ListNext]_vars

(***************************************************************************)
(* Properties of Path.list.                                                *)
(***************************************************************************)
Yielded == Range(out)
Read == Range(reads)
Depth(p) == Len(p) - Len(Root)
HiddenSegment(p) == \E i \in 1..Len(p) : StartsWith(p[i], ".")
IsTrue(v) == v = Some(TRUE)
\* The entries the hidden rule lets through: all of them with hidden: true, otherwise
\* those with no segment below the root that starts with a dot.
Shown(p) == IsTrue(options.hidden) \/ ~HiddenSegment(p)

\* C1: list({recursive: true, dir: true, maxDepth: k}) with k >= 1, once fully consumed,
\* has yielded exactly the entries the hidden rule lets through whose depth below the
\* root is at most k + 1 (the root's children being depth 1), and no deeper entry.
C1_MaxDepthYieldsKPlusOneLevels ==
  (/\ status = "done"
   /\ IsTrue(options.recursive) /\ IsTrue(options.dir)
   /\ options.maxDepth # Undefined /\ options.maxDepth[1] >= 1)
  => Yielded = {p \in EntryPaths : Depth(p) <= options.maxDepth[1] + 1 /\ Shown(p)}

\* C2: without maxDepth a fully consumed list({recursive: true}) has yielded every
\* non-directory entry at any depth that has no hidden segment, and with dir: true every
\* such directory as well.
C2_NoMaxDepthWalksWholeTree ==
  (status = "done" /\ IsTrue(options.recursive) /\ options.maxDepth = Undefined)
  => \A e \in Entries :
       (~HiddenSegment(e.path) /\ (~e.isDir \/ IsTrue(options.dir))) => e.path \in Yielded

\* A whole tree of full depth was walked without maxDepth and its deepest entries delivered.
C2_Witness ==
  /\ status = "done" /\ IsTrue(options.recursive) /\ options.maxDepth = Undefined
  /\ Len(tree) = TreeDepth
  /\ \E p \in Yielded : Depth(p) = TreeDepth

\* Two entries of the same directory and of the same kind.
Alike(e1, e2) == Front(e1.path) = Front(e2.path) /\ e1.isDir = e2.isDir

\* C3: unless hidden is true, no yielded path and no directory read has a segment below
\* the root that starts with a dot, at any moment of the traversal; with hidden: true a
\* fully consumed list has treated entries of one directory and one kind alike, whatever
\* their names: all of them yielded or none, all of them read or none.
C3_HiddenEntriesExcluded ==
  /\ ~IsTrue(options.hidden) =>
       /\ \A p \in Yielded : ~HiddenSegment(p)
       /\ \A p \in Read : ~HiddenSegment(p)
  /\ (IsTrue(options.hidden) /\ status = "done") =>
       \A e1 \in Entries : \A e2 \in Entries :
         Alike(e1, e2) =>
           /\ e1.path \in Yielded <=> e2.path \in Yielded
           /\ e1.path \in Read <=> e2.path \in Read

\* A recursive walk that shows no hidden entries ended after reading a directory, below
\* the root's children, that holds a non-empty hidden directory.
C3_Witness ==
  /\ status = "done" /\ ~IsTrue(options.hidden) /\ IsTrue(options.dir)
  /\ \E p \in DirPaths :
       /\ Depth(p) >= 2 /\ Last(p) = nHD
       /\ Front(p) \in Read
       /\ readdir(p) # <<>>

\* C4: unless recursive is true, every yielded path is an immediate child of the root
\* and no directory other than the root is read, whatever maxDepth and dir are.
C4_NonRecursiveStaysInRoot ==
  ~IsTrue(options.recursive) =>
    /\ \A p \in Yielded : Front(p) = Root
    /\ Read \subseteq {Root}

\* A non-recursive listing with dir: true and a maxDepth other than 1 ended after
\* yielding a directory that has entries of its own.
C4_Witness ==
  /\ status = "done" /\ ~IsTrue(options.recursive) /\ IsTrue(options.dir)
  /\ options.maxDepth = Some(2)
  /\ \E p \in Yielded : p \in DirPaths /\ readdir(p) # <<>>

\* An entry was reached and not excluded as hidden: its directory was read and the
\* hidden rule lets its name through.
Reached(e) == Front(e.path) \in Read /\ (IsTrue(options.hidden) \/ ~StartsWith(Last(e.path), "."))

\* The depth rule lets the walk enter the directory p: line 300 with the maxDepth that
\* reaches the activation listing p's parent.
DepthLetsIn(p) == options.maxDepth = Undefined \/ options.maxDepth[1] - (Depth(p) - 1) # 1

\* C5: a directory is never yielded unless dir is true; once the list is fully consumed,
\* a reached directory has been yielded iff dir is true, a reached non-directory has
\* been yielded whatever dir is, and with recursive: true a reached directory has been
\* read iff the depth rule lets the walk in, whether or not it was yielded.
C5_DirOptionDecidesDirectories ==
  /\ IsTrue(options.dir) \/ Yielded \cap DirPaths = {}
  /\ status = "done" =>
       \A e \in Entries :
         Reached(e) =>
           /\ e.isDir => (e.path \in Yielded <=> IsTrue(options.dir))
           /\ ~e.isDir => e.path \in Yielded
           /\ (e.isDir /\ IsTrue(options.recursive)) => (e.path \in Read <=> DepthLetsIn(e.path))

\* A recursive listing with dir: true ended having both yielded and entered a directory
\* below the root's children.
C5_Witness ==
  /\ status = "done" /\ IsTrue(options.dir) /\ IsTrue(options.recursive)
  /\ \E p \in DirPaths : Depth(p) >= 2 /\ p \in Yielded /\ p \in Read

(***************************************************************************)
(* Temporary directories. A location is a path below the file-system root; *)
(* mkdtemp appends a suffix no earlier call has produced to the last       *)
(* segment of its prefix. Removing a directory removes everything below    *)
(* it. The provider refuses (EACCES) to remove a locked directory and any  *)
(* directory holding one, and then removes nothing.                        *)
(***************************************************************************)
\* os.tmpdir()
tmpdir == << <<"t", "m", "p">> >>
\* name ?? 'node-'
DefaultName == <<"n", "o", "d", "e", "-">>
\* the name option of the tests: 'mojo-'
MojoName == <<"m", "o", "j", "o", "-">>

\* path.join(dir, name) for a name without separators: one more segment.
Join(dir, name) == Append(dir, name)

\* A slip: options.dir is ignored, every directory is made in the OS temp directory.
tempDirPrefix_IgnoresDir(dir, name) ==
  Join(tmpdir, IF name = Undefined THEN DefaultName ELSE name[1])

\* lines 644-646: path.join(dir === undefined ? os.tmpdir() : dir.toString(), name ?? 'node-')
tempDirPrefix(dir, name) ==
  Join(IF dir = Undefined THEN tmpdir ELSE dir[1], IF name = Undefined THEN DefaultName ELSE name[1])

\* The location mkdtemp creates for a prefix: the prefix with the n-th unique suffix.
MkdtempPath(prefix, n) == Append(Front(prefix), Last(prefix) \o <<ToString(n)>>)

\* mkdtemp needs the directory of the prefix to exist.
ParentExists(prefix) == Front(prefix) = tmpdir \/ Front(prefix) \in disk

Exists(p) == p \in disk
Below(p) == {q \in disk : IsPrefix(p, q)}

\* A slip: the removal is asked with force: true, which takes an absent path for done.
Rm_Force(p) ==
  IF ~Exists(p) THEN [code |-> <<>>, disk |-> disk]
  ELSE IF Below(p) \cap locked # {} THEN [code |-> <<"EACCES">>, disk |-> disk]
  ELSE [code |-> <<>>, disk |-> disk \ Below(p)]

\* fs.rmSync(p, {recursive: true}) / fsPromises.rm(p, {recursive: true}): the error
\* code, <<>> when the removal succeeds, and the disk afterwards.
Rm(p) ==
  IF ~Exists(p) THEN [code |-> <<"ENOENT">>, disk |-> disk]
  ELSE IF Below(p) \cap locked # {} THEN [code |-> <<"EACCES">>, disk |-> disk]
  ELSE [code |-> <<>>, disk |-> disk \ Below(p)]

\* A slip: every entry up to and including the one removed is dropped.
tempDirRemoved_DropsPrefix(path) ==
  IF \E i \in 1..Len(tempDirCleanup) : tempDirCleanup[i] = path
  THEN SubSeq(tempDirCleanup,
              1 + (CHOOSE i \in 1..Len(tempDirCleanup) : tempDirCleanup[i] = path),
              Len(tempDirCleanup))
  ELSE tempDirCleanup

\* A slip: the filter keeps the entry instead of dropping it.
tempDirRemoved_KeepsIt(path) == SelectSeq(tempDirCleanup, LAMBDA tempPath : tempPath = path)

\* A slip: deregistration forgotten.
tempDirRemoved_Noop(path) == tempDirCleanup

\* A slip: removing one location empties the registry.
tempDirRemoved_ClearsAll(path) == <<>>

\* A slip: the locations inside the removed directory are dropped with it.
tempDirRemoved_DropsNested(path) ==
  SelectSeq(tempDirCleanup, LAMBDA tempPath : ~IsPrefix(path, tempPath))

\* A slip: the newest entry is popped, whichever location was removed.
tempDirRemoved_PopsLast(path) == IF tempDirCleanup = <<>> THEN <<>> ELSE Front(tempDirCleanup)

\* lines 649-651: tempDirCleanup = tempDirCleanup.filter(tempPath => tempPath !== path)
tempDirRemoved(path) == SelectSeq(tempDirCleanup, LAMBDA tempPath : tempPath # path)

Event(e, p, c) == [ev |-> e, path |-> p, code |-> c]

\* The options of tempDir/tempDirSync: none, as in Path.tempDir(), or a TempDir handed
\* out earlier as dir together with a name, as in Path.tempDir({dir: temp3, name: 'mojo-'}).
TempDirOptions ==
  {[dir |-> Undefined, name |-> Undefined]} \cup {[dir |-> Some(h), name |-> Some(MojoName)] : h \in handles}

CanCall == phase = "running" /\ nCalls < MaxCalls

\* A slip: the location is pushed before mkdtempSync is tried, so a failed creation
\* leaves its prefix in the registry.
tempDirSync_RegistersFirst(dir, name) ==
  /\ CanCall
  /\ nCalls' = nCalls + 1
  /\ LET prefix == tempDirPrefix(dir, name)
         path == MkdtempPath(prefix, nextId + 1)
     IN IF ParentExists(prefix)
        THEN /\ nextId < MaxTempDirs
             /\ nextId' = nextId + 1
             /\ disk' = disk \cup {path}
             /\ tempDirCleanup' = Append(tempDirCleanup, path)
             /\ handles' = handles \cup {path}
             /\ log' = log \cup {Event("created", path, <<>>)}
        ELSE /\ log' = log \cup {Event("tempDirFailed", prefix, <<"ENOENT">>)}
             /\ tempDirCleanup' = Append(tempDirCleanup, prefix)
             /\ UNCHANGED <<nextId, disk, handles>>
  /\ UNCHANGED <<locked, ops, phase, sweepIdx, attempted, sweepError>>
  /\ UNCHANGED listVars
  /\ UNCHANGED ctorVars

\* lines 524-528: Path.tempDirSync. mkdtempSync throws before anything is registered.
tempDirSync(dir, name) ==
  /\ CanCall
  /\ nCalls' = nCalls + 1
  /\ LET prefix == tempDirPrefix(dir, name)
         path == MkdtempPath(prefix, nextId + 1)
     IN IF ParentExists(prefix)
        THEN /\ nextId < MaxTempDirs
             /\ nextId' = nextId + 1
             /\ disk' = disk \cup {path}
             /\ tempDirCleanup' = Append(tempDirCleanup, path)
             /\ handles' = handles \cup {path}
             /\ log' = log \cup {Event("created", path, <<>>)}
        ELSE /\ log' = log \cup {Event("tempDirFailed", prefix, <<"ENOENT">>)}
             /\ UNCHANGED <<nextId, disk, tempDirCleanup, handles>>
  /\ UNCHANGED <<locked, ops, phase, sweepIdx, attempted, sweepError>>
  /\ UNCHANGED listVars
  /\ UNCHANGED ctorVars

\* lines 514-515: Path.tempDir starts fsPromises.mkdtemp and suspends.
tempDir(dir, name) ==
  /\ CanCall
  /\ nCalls' = nCalls + 1
  /\ ops' = ops \cup {[kind |-> "tempDir", id |-> nCalls + 1, pc |-> "mkdtemp",
                       path |-> tempDirPrefix(dir, name)]}
  /\ UNCHANGED <<disk, locked, tempDirCleanup, handles, nextId, phase, sweepIdx,
                 attempted, log, sweepError>>
  /\ UNCHANGED listVars
  /\ UNCHANGED ctorVars

\* The provider carries out the mkdtemp of a pending tempDir(): the directory is on
\* disk, the promise is settled, the .then callback of line 515 has not run yet.
MkdtempDone(op) ==
  /\ phase = "running"
  /\ op.kind = "tempDir" /\ op.pc = "mkdtemp"
  /\ ParentExists(op.path)
  /\ nextId < MaxTempDirs
  /\ LET path == MkdtempPath(op.path, nextId + 1)
     IN /\ nextId' = nextId + 1
        /\ disk' = disk \cup {path}
        /\ ops' = (ops \ {op}) \cup {[op EXCEPT !.pc = "then", !.path = path]}
        /\ log' = log \cup {Event("created", path, <<>>)}
  /\ UNCHANGED <<locked, tempDirCleanup, handles, nCalls, phase, sweepIdx, attempted, sweepError>>
  /\ UNCHANGED listVars
  /\ UNCHANGED ctorVars

\* The mkdtemp of a pending tempDir() fails: the promise rejects, .then is skipped.
MkdtempFailed(op) ==
  /\ phase = "running"
  /\ op.kind = "tempDir" /\ op.pc = "mkdtemp"
  /\ ~ParentExists(op.path)
  /\ ops' = ops \ {op}
  /\ log' = log \cup {Event("tempDirFailed", op.path, <<"ENOENT">>)}
  /\ UNCHANGED <<disk, locked, tempDirCleanup, handles, nextId, nCalls, phase, sweepIdx,
                 attempted, sweepError>>
  /\ UNCHANGED listVars
  /\ UNCHANGED ctorVars

\* A slip: the location is pushed twice.
tempDirThen_PushesTwice(op) ==
  /\ phase = "running"
  /\ op.kind = "tempDir" /\ op.pc = "then"
  /\ tempDirCleanup' = Append(Append(tempDirCleanup, op.path), op.path)
  /\ handles' = handles \cup {op.path}
  /\ ops' = ops \ {op}
  /\ UNCHANGED <<disk, locked, nextId, nCalls, phase, sweepIdx, attempted, log, sweepError>>
  /\ UNCHANGED listVars
  /\ UNCHANGED ctorVars

\* A slip: the callback writes back a registry of its own, losing what others pushed.
tempDirThen_Overwrites(op) ==
  /\ phase = "running"
  /\ op.kind = "tempDir" /\ op.pc = "then"
  /\ tempDirCleanup' = <<op.path>>
  /\ handles' = handles \cup {op.path}
  /\ ops' = ops \ {op}
  /\ UNCHANGED <<disk, locked, nextId, nCalls, phase, sweepIdx, attempted, log, sweepError>>
  /\ UNCHANGED listVars
  /\ UNCHANGED ctorVars

\* lines 515-518: the .then callback: tempDirCleanup.push(path); return new TempDir(path)
tempDirThen(op) ==
  /\ phase = "running"
  /\ op.kind = "tempDir" /\ op.pc = "then"
  /\ tempDirCleanup' = Append(tempDirCleanup, op.path)
  /\ handles' = handles \cup {op.path}
  /\ ops' = ops \ {op}
  /\ UNCHANGED <<disk, locked, nextId, nCalls, phase, sweepIdx, attempted, log, sweepError>>
  /\ UNCHANGED listVars
  /\ UNCHANGED ctorVars

\* lines 638-641: TempDir.destroySync. rmSync throws before tempDirRemoved is reached.
destroySync(h) ==
  /\ CanCall
  /\ nCalls' = nCalls + 1
  /\ LET r == Rm(h)
     IN /\ disk' = r.disk
        /\ IF r.code = <<>>
           THEN /\ tempDirCleanup' = tempDirRemoved(h)
                /\ log' = log \cup {Event("destroyed", h, <<>>), Event("destroyOk", h, <<>>)}
           ELSE /\ log' = log \cup {Event("destroyFailed", h, r.code)}
                /\ UNCHANGED tempDirCleanup
  /\ UNCHANGED <<locked, handles, ops, nextId, phase, sweepIdx, attempted, sweepError>>
  /\ UNCHANGED listVars
  /\ UNCHANGED ctorVars

\* A slip: destroy() takes the location out of the registry before it starts the removal.
destroy_DeregistersFirst(h) ==
  /\ CanCall
  /\ nCalls' = nCalls + 1
  /\ tempDirCleanup' = tempDirRemoved(h)
  /\ ops' = ops \cup {[kind |-> "destroy", id |-> nCalls + 1, pc |-> "rm", path |-> h]}
  /\ UNCHANGED <<disk, locked, handles, nextId, phase, sweepIdx, attempted, log, sweepError>>
  /\ UNCHANGED listVars
  /\ UNCHANGED ctorVars

\* lines 630-631: TempDir.destroy starts fsPromises.rm and suspends.
destroy(h) ==
  /\ CanCall
  /\ nCalls' = nCalls + 1
  /\ ops' = ops \cup {[kind |-> "destroy", id |-> nCalls + 1, pc |-> "rm", path |-> h]}
  /\ UNCHANGED <<disk, locked, tempDirCleanup, handles, nextId, phase, sweepIdx,
                 attempted, log, sweepError>>
  /\ UNCHANGED listVars
  /\ UNCHANGED ctorVars

\* The provider carries out the rm of a pending destroy(): the tree is gone, line 632
\* has not run yet.
RmDone(op) ==
  /\ phase = "running"
  /\ op.kind = "destroy" /\ op.pc = "rm"
  /\ Rm(op.path).code = <<>>
  /\ disk' = Rm(op.path).disk
  /\ ops' = (ops \ {op}) \cup {[op EXCEPT !.pc = "removed"]}
  /\ log' = log \cup {Event("destroyed", op.path, <<>>)}
  /\ UNCHANGED <<locked, tempDirCleanup, handles, nextId, nCalls, phase, sweepIdx,
                 attempted, sweepError>>
  /\ UNCHANGED listVars
  /\ UNCHANGED ctorVars

\* A slip: the location is taken out of the registry although the removal failed (a
\* finally block).
RmFailed_Deregisters(op) ==
  /\ phase = "running"
  /\ op.kind = "destroy" /\ op.pc = "rm"
  /\ Rm(op.path).code # <<>>
  /\ ops' = ops \ {op}
  /\ tempDirCleanup' = tempDirRemoved(op.path)
  /\ log' = log \cup {Event("destroyFailed", op.path, Rm(op.path).code)}
  /\ UNCHANGED <<disk, locked, handles, nextId, nCalls, phase, sweepIdx,
                 attempted, sweepError>>
  /\ UNCHANGED listVars
  /\ UNCHANGED ctorVars

\* The rm of a pending destroy() fails: the await of line 631 throws.
RmFailed(op) ==
  /\ phase = "running"
  /\ op.kind = "destroy" /\ op.pc = "rm"
  /\ Rm(op.path).code # <<>>
  /\ ops' = ops \ {op}
  /\ log' = log \cup {Event("destroyFailed", op.path, Rm(op.path).code)}
  /\ UNCHANGED <<disk, locked, tempDirCleanup, handles, nextId, nCalls, phase, sweepIdx,
                 attempted, sweepError>>
  /\ UNCHANGED listVars
  /\ UNCHANGED ctorVars

\* line 632: destroy() resumes after the await: tempDirRemoved(this._path)
destroyResume(op) ==
  /\ phase = "running"
  /\ op.kind = "destroy" /\ op.pc = "removed"
  /\ tempDirCleanup' = tempDirRemoved(op.path)
  /\ ops' = ops \ {op}
  /\ log' = log \cup {Event("destroyOk", op.path, <<>>)}
  /\ UNCHANGED <<disk, locked, handles, nextId, nCalls, phase, sweepIdx, attempted, sweepError>>
  /\ UNCHANGED listVars
  /\ UNCHANGED ctorVars

\* dir.child('test.txt').writeFile(...): the caller puts a file into a temp directory
\* (one file per run).
WriteFile(h) ==
  /\ phase = "running"
  /\ Exists(h)
  /\ \A q \in disk : Last(q) # nF
  /\ disk' = disk \cup {Resolve(h, nF)}
  /\ log' = log \cup {Event("written", h, <<>>)}
  /\ UNCHANGED <<locked, tempDirCleanup, handles, ops, nextId, nCalls, phase, sweepIdx,
                 attempted, sweepError>>
  /\ UNCHANGED listVars
  /\ UNCHANGED ctorVars

\* The environment makes a temp directory unremovable (permissions, a busy mount); one
\* directory per run.
Lock(h) ==
  /\ phase = "running"
  /\ Exists(h)
  /\ locked = {}
  /\ locked' = locked \cup {h}
  /\ UNCHANGED <<disk, tempDirCleanup, handles, ops, nextId, nCalls, phase, sweepIdx,
                 attempted, log, sweepError>>
  /\ UNCHANGED listVars
  /\ UNCHANGED ctorVars

\* lines 626-642: what class TempDir declares on top of Path.
TempDirMethods == {"destroy", "destroySync"}

\* What a declaration looks up on its value: using takes Symbol.dispose, await using
\* takes Symbol.asyncDispose and falls back on Symbol.dispose.
DisposeMethods(kind) ==
  IF kind = "using" THEN {"Symbol.dispose"} ELSE {"Symbol.asyncDispose", "Symbol.dispose"}

\* { using dir = h; ... } and { await using dir = h; ... } on a handle the caller just got:
\* the declaration finds no dispose method on a TempDir and throws a TypeError, the
\* block is left at once and nothing is removed.
Using(h, kind) ==
  /\ CanCall
  /\ nCalls' = nCalls + 1
  /\ DisposeMethods(kind) \cap TempDirMethods = {}
  /\ log' = log \cup {Event("scopeLeft", h, <<"TypeError">>)}
  /\ UNCHANGED <<disk, locked, tempDirCleanup, handles, ops, nextId, phase, sweepIdx,
                 attempted, sweepError>>
  /\ UNCHANGED listVars
  /\ UNCHANGED ctorVars

\* line 653: the process is about to exit and runs the 'exit' handler. JavaScript runs
\* it between two callbacks: asynchronous calls may be in flight and never resume.
Exit ==
  /\ phase = "running"
  /\ phase' = IF tempDirCleanup = <<>> THEN "exited" ELSE "sweeping"
  /\ sweepIdx' = 1
  /\ UNCHANGED <<disk, locked, tempDirCleanup, handles, ops, nextId, nCalls, attempted,
                 log, sweepError>>
  /\ UNCHANGED listVars
  /\ UNCHANGED ctorVars

\* A slip: the catch block rethrows whatever it catches.
SweepThrows_Everything(code) == code # <<>>

\* A slip: the catch block swallows whatever it catches.
SweepThrows_Nothing(code) == FALSE

\* line 658: if (!(error instanceof Error) || error.code !== 'ENOENT') throw error;
SweepThrows(code) == code # <<>> /\ code # <<"ENOENT">>

\* lines 654-659: one turn of the handler's loop: rmSync the next registered location,
\* swallow ENOENT, rethrow anything else (which ends the handler).
SweepStep ==
  /\ phase = "sweeping"
  /\ LET path == tempDirCleanup[sweepIdx]
         r == Rm(path)
         thrown == SweepThrows(r.code)
     IN /\ attempted' = Append(attempted, [path |-> path, code |-> r.code])
        /\ disk' = r.disk
        /\ log' = IF r.code = <<>> THEN log \cup {Event("swept", path, <<>>)} ELSE log
        /\ sweepError' = IF thrown THEN r.code ELSE sweepError
        /\ phase' = IF thrown \/ sweepIdx = Len(tempDirCleanup) THEN "exited" ELSE phase
        /\ sweepIdx' = sweepIdx + 1
  /\ UNCHANGED <<locked, tempDirCleanup, handles, ops, nextId, nCalls>>
  /\ UNCHANGED listVars
  /\ UNCHANGED ctorVars

\* No list() is under way while the temp directories are exercised.
ListIdle ==
  /\ tree = <<>>
  /\ denied = {}
  /\ options = [dir |-> Undefined, hidden |-> Undefined, recursive |-> Undefined,
                maxDepth |-> Undefined]
  /\ stack = <<>>
  /\ status = "done"
  /\ out = <<>>
  /\ reads = <<>>
  /\ errno = "EACCES"
  /\ listError = <<>>
  /\ asked = 0

InitTemp == TempInit /\ ListIdle /\ CtorIdle

TempNext ==
  \/ \E o \in TempDirOptions : tempDirSync(o.dir, o.name)
  \/ \E o \in TempDirOptions : tempDir(o.dir, o.name)
  \/ \E op \in ops : MkdtempDone(op)
  \/ \E op \in ops : MkdtempFailed(op)
  \/ \E op \in ops : tempDirThen(op)
  \/ \E h \in handles : destroySync(h)
  \/ \E h \in handles : destroy(h)
  \/ \E op \in ops : RmDone(op)
  \/ \E op \in ops : RmFailed(op)
  \/ \E op \in ops : destroyResume(op)
  \/ \E h \in handles : WriteFile(h)
  \/ \E h \in handles : Lock(h)
  \/ \E h \in handles : \E kind \in {"using", "await using"} : Using(h, kind)
  \/ Exit
  \/ SweepStep

SpecTemp == InitTemp /\ [][TempNext]_vars

(***************************************************************************)
(* Properties of the temporary directories.                                *)
(***************************************************************************)
Happened(e, p) == \E x \in log : x.ev = e /\ x.path = p
Created == {x.path : x \in {y \in log : y.ev = "created"}}
\* The locations a destroy()/destroySync() call removed from disk.
Destroyed == {x.path : x \in {y \in log : y.ev = "destroyed"}}
\* The locations whose destroy()/destroySync() call returned without error.
DestroyedOk == {x.path : x \in {y \in log : y.ev = "destroyOk"}}
\* The locations the 'exit' handler removed from disk.
Swept == {x.path : x \in {y \in log : y.ev = "swept"}}
Registered == Range(tempDirCleanup)
Attempted == {attempted[j].path : j \in 1..Len(attempted)}
\* p went away when a directory around it was removed.
RemovedWithParent(p) == \E q \in Destroyed \cup Swept : q # p /\ IsPrefix(q, p)

\* C6: once destroy() or destroySync() on a handle returned by tempDir()/tempDirSync()
\* has succeeded, neither the directory nor anything written into it exists on disk and
\* its location is not in the registry.
C6_DestroyLeavesNoTrace ==
  \A h \in DestroyedOk : Below(h) = {} /\ h \notin Registered

\* A temp directory a file was written into has been destroyed successfully.
C6_Witness ==
  \E h \in DestroyedOk : h \in handles /\ Happened("written", h)

\* All the calls made have returned, N directories were allocated and M < N destroyed.
AllocatedAndDestroyed ==
  /\ ops = {}
  /\ Cardinality(DestroyedOk) < Cardinality(handles)

\* C7 as claimed, for runs in which the provider refuses no removal: after allocating N
\* temp directories and destroying M < N of them, the exit sweep has removed exactly
\* the N - M directories still registered, has attempted none of the M destroyed ones
\* and has raised no error.
C7_SweepRemovesExactlyTheRest ==
  (phase = "exited" /\ AllocatedAndDestroyed /\ locked = {})
  => /\ Swept = handles \ DestroyedOk
     /\ Swept = Registered
     /\ Attempted \cap DestroyedOk = {}
     /\ sweepError = <<>>

\* C7, amended: after allocating N temp directories and destroying M < N of them, the
\* exit sweep attempts none of the M destroyed ones; when it ends without error it has
\* attempted exactly the N - M locations still registered, each once and in registration
\* order, none of them is left on disk, and the sweep has itself removed each of them
\* that was not already removed together with an enclosing temp directory.
C7_SweepCoversTheRest ==
  (phase = "exited" /\ AllocatedAndDestroyed)
  => /\ Attempted \cap DestroyedOk = {}
     /\ sweepError = <<>> =>
          /\ [j \in 1..Len(attempted) |-> attempted[j].path] = tempDirCleanup
          /\ Attempted = handles \ DestroyedOk
          /\ Len(attempted) = Cardinality(Attempted)
          /\ \A h \in handles \ DestroyedOk :
               /\ Below(h) = {}
               /\ h \in Swept \/ RemovedWithParent(h)
          /\ Swept \subseteq handles \ DestroyedOk

\* Two directories were allocated, one was destroyed, and the sweep removed the other.
C7_Witness ==
  /\ phase = "exited" /\ AllocatedAndDestroyed /\ sweepError = <<>>
  /\ Cardinality(handles) = 2 /\ Cardinality(DestroyedOk) = 1
  /\ Cardinality(Swept) = 1

\* C8: in the exit sweep a removal failing with ENOENT is not the end of the sweep,
\* which goes on with the next location and never reports ENOENT; a removal failing
\* otherwise is the last one attempted and its error is the one the sweep throws; a
\* sweep that ended without error went through the whole registry.
C8_SweepSwallowsOnlyENOENT ==
  /\ sweepError # <<"ENOENT">>
  /\ \A j \in 1..Len(attempted) :
       /\ (attempted[j].code = <<"ENOENT">> /\ j < Len(tempDirCleanup))
            => (Len(attempted) > j \/ phase = "sweeping")
       /\ attempted[j].code \notin {<<>>, <<"ENOENT">>}
            => (j = Len(attempted) /\ phase = "exited" /\ sweepError = attempted[j].code)
  /\ (phase = "exited" /\ sweepError = <<>>) => Len(attempted) = Len(tempDirCleanup)
  /\ sweepError # <<>> => (attempted # <<>> /\ Last(attempted).code = sweepError)

\* The sweep met a location that did not exist, went on, and was then ended by a
\* removal that failed for another reason.
C8_Witness ==
  /\ phase = "exited"
  /\ Len(attempted) = 2
  /\ attempted[1].code = <<"ENOENT">>
  /\ attempted[2].code = <<"EACCES">>
  /\ sweepError = <<"EACCES">>

\* Every directory created so far has reached the registry.
AllRegistered == \A op \in ops : ~(op.kind = "tempDir" /\ op.pc = "then")

\* C9 as claimed, for the directories that reached the registry: once the process has
\* exited, every temp directory was removed by exactly one of an explicit destroy and
\* the sweep (itself or within an enclosing temp directory), the sweep attempted no
\* location whose destroy had removed it, and a directory never destroyed was removed
\* by the sweep.
C9_ExactlyOneOfDestroyOrSweep ==
  (phase = "exited" /\ AllRegistered)
  => /\ \A p \in Created :
          LET byDestroy == \E q \in Destroyed : IsPrefix(q, p)
              bySweep == \E q \in Swept : IsPrefix(q, p)
          IN /\ byDestroy \/ bySweep
             /\ ~(byDestroy /\ bySweep)
     /\ Attempted \cap Destroyed = {}

\* C9, amended: in every execution no temp directory is removed both by an explicit
\* destroy and by the sweep; the sweep never attempts a location whose destroy() or
\* destroySync() has returned; and when the sweep has ended without error, every
\* location that was handed out and whose destroy never returned was attempted by the
\* sweep and is gone, removed by the sweep unless a destroy (of it, still in flight, or
\* of an enclosing temp directory) or the sweep of an enclosing one had removed it.
C9_AtMostOneOfDestroyOrSweep ==
  /\ Destroyed \cap Swept = {}
  /\ Attempted \cap DestroyedOk = {}
  /\ (phase = "exited" /\ sweepError = <<>>) =>
       \A h \in handles \ DestroyedOk :
         /\ h \in Attempted
         /\ Below(h) = {}
         /\ h \in Swept \/ h \in Destroyed \/ RemovedWithParent(h)

\* One directory was destroyed explicitly, another was left to the sweep, which
\* removed it: each was removed once.
C9_Witness ==
  /\ phase = "exited" /\ sweepError = <<>>
  /\ \E a \in DestroyedOk : \E b \in Swept : a # b /\ a \in Destroyed /\ b \notin Destroyed

\* C10: in every state a temp directory that an allocation created and that is still
\* on disk is in the registry.
C10_CreatedIsRegistered ==
  \A p \in Created : Exists(p) => p \in Registered


\* The directory options.dir names is not there: mkdtemp cannot create below it.
DirMissing(o) == o.dir # Undefined /\ o.dir[1] \notin disk

\* A failed creation: the caller has the error, no handle came back, the registry
\* is what it was.
FailedCreation(prefix) ==
  /\ Event("tempDirFailed", prefix, <<"ENOENT">>) \in log'
  /\ handles' = handles
  /\ tempDirCleanup' = tempDirCleanup

\* C11: when the creation of the directory fails, tempDirSync() and tempDir() hand the
\* provider's error to the caller, return no TempDir handle and leave the registry
\* exactly as it was: neither the call nor the failing mkdtemp changes it.
C11_FailedCreationLeavesRegistry ==
  [][/\ \A o \in TempDirOptions :
          /\ (DirMissing(o) /\ tempDirSync(o.dir, o.name))
                => FailedCreation(Append(o.dir[1], o.name[1]))
          /\ tempDir(o.dir, o.name) => (handles' = handles /\ tempDirCleanup' = tempDirCleanup)
     /\ \A op \in ops : MkdtempFailed(op) => FailedCreation(op.path)]_vars

\* A creation failed while another temporary directory was registered.
C11_Witness ==
  /\ \E e \in log : e.ev = "tempDirFailed"
  /\ tempDirCleanup # <<>>
  /\ handles # {}


(***************************************************************************)
(* Failures and laziness of Path.list.                                     *)
(***************************************************************************)

\* C12: when the root cannot be enumerated, calling list() neither fails nor reads
\* anything; the first request of the consumer makes the one read of the root, fails with
\* the provider's error, and no entry is ever delivered.
C12_UnreadableRootFailsAtFirstRequest ==
  Root \in denied =>
    /\ out = <<>>
    /\ asked <= 1
    /\ asked = 0 => (status = "suspended" /\ reads = <<>> /\ listError = <<>>)
    /\ asked = 1 => \/ status = "running" /\ reads = <<>> /\ listError = <<>>
                    \/ status = "failed" /\ reads = <<Root>> /\ listError = Some(errno)

\* The first request on a root that is not a directory has failed.
C12_Witness ==
  /\ Root \in denied /\ errno = "ENOTDIR"
  /\ status = "failed" /\ asked = 1

\* The hidden rule of line 295 lets the name through.
NameShown(name) == IsTrue(options.hidden) \/ ~StartsWith(name, ".")

\* Line 300 in the activation that lists a directory j - 1 levels below the root, whose
\* maxDepth is the root's less j - 1: the walk goes into that directory's subdirectories.
GoesBelow(j) == options.maxDepth = Undefined \/ options.maxDepth[1] - (j - 1) # 1

\* A walk that meets no failure enters the directory d: the root, or with recursive:
\* true a directory whose every segment is shown and let in by the depth rule.
Entered(d) ==
  \/ d = Root
  \/ /\ IsTrue(options.recursive)
     /\ \A j \in 1..Len(d) : NameShown(d[j]) /\ GoesBelow(j)

\* A walk that meets no failure yields the entry e.
WouldYield(e) ==
  /\ Entered(Front(e.path))
  /\ NameShown(Last(e.path))
  /\ e.isDir => IsTrue(options.dir)

\* The position of the entry p in the readdir result of its directory.
IndexIn(p) == CHOOSE j \in 1..Len(readdir(Front(p))) : readdir(Front(p))[j].name = Last(p)

\* The first segment where p and q part.
Diverge(p, q) == CHOOSE i \in 1..Len(p) : p[i] # q[i] /\ \A j \in 1..(i - 1) : p[j] = q[j]

\* Depth-first pre-order: p comes before q when p is an ancestor of q, or where they
\* part p's branch stands earlier in its directory.
ComesBefore(p, q) ==
  /\ p # q
  /\ \/ IsPrefix(p, q)
     \/ /\ ~IsPrefix(q, p)
        /\ LET i == Diverge(p, q)
           IN IndexIn(SubSeq(p, 1, i)) < IndexIn(SubSeq(q, 1, i))

\* p precedes the contents of the directory d: it is d itself or comes before it.
BeforeContents(p, d) == p = d \/ ComesBefore(p, d)

\* What a walk that meets no failure yields.
WalkYields == {e.path : e \in {x \in Entries : WouldYield(x)}}

\* What a walk failing on the directory d has delivered.
YieldedBefore(d) == {p \in WalkYields : BeforeContents(p, d)}

\* C13: when a subdirectory cannot be enumerated during a recursive list, its read ends
\* the iteration at once: the consumer has exactly the entries that precede the
\* subdirectory's contents in depth-first order (the subdirectory itself with dir: true),
\* each once, gets the provider's error unchanged, and no activation is left to deliver
\* anything more: the directory is not skipped, its later siblings are never yielded.
C13_UnreadableSubdirectoryEndsTheWalk ==
  \A d \in denied :
    (d # Root /\ d \in Read) =>
      /\ status = "failed" /\ listError = Some(errno)
      /\ stack = <<>>
      /\ Last(reads) = d
      /\ Len(out) = Cardinality(Yielded)
      /\ Yielded = YieldedBefore(d)

\* A walk failed on a subdirectory it had yielded, with an entry delivered before it and
\* a later sibling that a complete walk yields left out.
C13_Witness ==
  /\ status = "failed" /\ Root \notin denied
  /\ \E d \in denied :
       /\ d \in Yielded /\ Last(reads) = d
       /\ \E p \in Yielded : ComesBefore(p, d)
       /\ \E e \in Entries : WouldYield(e) /\ Front(e.path) = Root /\ ComesBefore(d, e.path)
                                /\ e.path \notin Yielded


\* Every directory read so far was read once, and only when the consumer had asked for
\* more items than a walk delivers before that directory's contents, all of them
\* delivered by then.
ReadOnDemand ==
  /\ Len(reads) = Cardinality(Read)
  /\ Len(out) <= asked /\ asked <= Len(out) + 1
  /\ LET walk == WalkYields
     IN \A d \in Read :
          LET before == {p \in walk : BeforeContents(p, d)}
          IN before \subseteq Yielded /\ asked > Cardinality(before)

\* C14: list reads directories only on demand: a directory is read at most once, and
\* only after the consumer has requested an item beyond everything that precedes the
\* directory's contents in depth-first order (so after one request only the directories
\* needed to reach the first item are read); while no request is outstanding no
\* directory is read.
C14_DirectoriesReadOnDemand ==
  /\ []ReadOnDemand
  /\ [][status # "running" => reads' = reads]_vars

\* The consumer took one item and stopped: a non-empty directory that a complete walk
\* enters has not been read.
C14_Witness ==
  /\ status = "suspended" /\ asked = 1 /\ Len(out) = 1 /\ denied = {}
  /\ \E d \in DirPaths : Entered(d) /\ readdir(d) # <<>> /\ d \notin Read


\* C15: a TempDir handle is disposable: once the block that declared it with using or
\* await using has been left, its directory no longer exists on disk.
C15_LeavingScopeRemovesDirectory ==
  \A h \in handles : Happened("scopeLeft", h) => ~Exists(h)


(***************************************************************************)
(* Where a temporary directory is made.                                    *)
(***************************************************************************)
DirOf(o) == IF o.dir = Undefined THEN tmpdir ELSE o.dir[1]
NameOf(o) == IF o.name = Undefined THEN DefaultName ELSE o.name[1]

\* The location p is a direct child of options.dir (the OS temp directory without it)
\* and its base name starts with options.name ('node-' without it).
AsOptionsSay(p, o) == Front(p) = DirOf(o) /\ IsPrefix(NameOf(o), Last(p))

\* tempDirSync(o) has returned a handle: its location is as o says and is on disk.
SyncLocation(o) ==
  (tempDirSync(o.dir, o.name) /\ handles' # handles)
    => \E h \in handles' \ handles : AsOptionsSay(h, o) /\ h \in disk'

\* tempDir(o) hands mkdtemp the prefix o names, and mkdtemp makes the directory there.
AsyncLocation(o) ==
  tempDir(o.dir, o.name)
    => \E op \in ops' \ ops : op.path = Append(DirOf(o), NameOf(o))

MkdtempLocation(op) ==
  MkdtempDone(op)
    => \E made \in ops' \ ops :
         /\ made.id = op.id
         /\ Front(made.path) = Front(op.path) /\ IsPrefix(Last(op.path), Last(made.path))
         /\ made.path \in disk'

\* C16 as claimed: the location tempDir(options) / tempDirSync(options) returns is a
\* direct child of options.dir (of the OS temp directory without it), its base name
\* starts with options.name ('node-' without it), and the directory is on disk when the
\* handle is returned.
C16_LocationAsOptionsSayAndOnDisk ==
  [][/\ \A o \in TempDirOptions : SyncLocation(o) /\ AsyncLocation(o)
     /\ \A op \in ops :
          /\ MkdtempLocation(op)
          /\ tempDirThen(op) => (handles' = handles \cup {op.path} /\ op.path \in disk')]_vars

\* C16, amended: the same, except that the directory an asynchronous tempDir() returns
\* may have gone with an enclosing temporary directory that was destroyed after mkdtemp
\* made it and before the call resumed.
C16_LocationAsOptionsSay ==
  [][/\ \A o \in TempDirOptions : SyncLocation(o) /\ AsyncLocation(o)
     /\ \A op \in ops :
          /\ MkdtempLocation(op)
          /\ tempDirThen(op) =>
               /\ handles' = handles \cup {op.path}
               /\ op.path \in disk' \/ RemovedWithParent(op.path)]_vars

\* Both kinds of call have returned: a 'node-' directory in the OS temp directory and a
\* 'mojo-' directory inside it, both on disk.
C16_Witness ==
  \E a \in handles : \E b \in handles :
    /\ Front(a) = tmpdir /\ IsPrefix(DefaultName, Last(a))
    /\ Front(b) = a /\ IsPrefix(MojoName, Last(b))
    /\ a \in disk /\ b \in disk


(***************************************************************************)
(* The constructor: new Path(...parts). A string is a sequence of          *)
(* characters; path.join is computed as node's posix implementation does,  *)
(* on the three characters that matter to it.                              *)
(***************************************************************************)
Chars == {"a", ".", "/"}
Strings == UNION {[1..n -> Chars] : n \in 0..MaxPartLen}
ArgLists == UNION {[1..n -> Strings] : n \in 0..MaxParts}

\* process.cwd(): an absolute path.
cwd == <<"/", "w">>

Dot == <<".">>
DotDot == <<".", ".">>

RECURSIVE Split(_)
\* The segments of a string between its separators.
Split(str) ==
  IF str = <<>> THEN << <<>> >>
  ELSE LET rest == Split(Tail(str))
       IN IF Head(str) = "/" THEN << <<>> >> \o rest
          ELSE << <<Head(str)>> \o Head(rest) >> \o Tail(rest)

RECURSIVE Resolved(_, _, _)
\* normalizeString: empty and '.' segments are dropped, '..' takes the segment before
\* it away, or stays when there is none and the path is relative.
Resolved(segs, res, allowAboveRoot) ==
  IF segs = <<>> THEN res
  ELSE LET seg == Head(segs)
           next == IF seg = <<>> \/ seg = Dot THEN res
                   ELSE IF seg = DotDot
                        THEN IF res # <<>> /\ Last(res) # DotDot THEN Front(res)
                             ELSE IF allowAboveRoot THEN Append(res, seg) ELSE res
                        ELSE Append(res, seg)
       IN Resolved(Tail(segs), next, allowAboveRoot)

RECURSIVE Glued(_)
\* The segments with a separator between them.
Glued(segs) ==
  IF segs = <<>> THEN <<>>
  ELSE IF Len(segs) = 1 THEN segs[1]
  ELSE segs[1] \o <<"/">> \o Glued(Tail(segs))

\* path.normalize
Normalize(str) ==
  IF str = <<>> THEN Dot
  ELSE LET isAbsolute == Head(str) = "/"
           trailingSeparator == Last(str) = "/"
           body == Glued(Resolved(Split(str), <<>>, ~isAbsolute))
       IN IF body = <<>>
          THEN IF isAbsolute THEN <<"/">> ELSE IF trailingSeparator THEN <<".", "/">> ELSE Dot
          ELSE (IF isAbsolute THEN <<"/">> ELSE <<>>) \o body
               \o (IF trailingSeparator THEN <<"/">> ELSE <<>>)

\* The arguments that are not empty.
NonEmpty(ps) == SelectSeq(ps, LAMBDA str : str # <<>>)

\* A slip: the arguments are glued together and returned as they are.
PathJoin_Unnormalized(ps) == Glued(NonEmpty(ps))

\* path.join(...parts): the non-empty arguments glued together and normalized, '.'
\* when there is none.
PathJoin(ps) == IF NonEmpty(ps) = <<>> THEN Dot ELSE Normalize(Glued(NonEmpty(ps)))

\* lines 45-47: this._path = parts.length === 0 ? process.cwd()
\*                         : parts.length === 1 ? parts[0] : path.join(...parts)
Construct ==
  /\ location = Undefined
  /\ location' = Some(IF Len(parts) = 0 THEN cwd
                      ELSE IF Len(parts) = 1 THEN parts[1] ELSE PathJoin(parts))
  /\ UNCHANGED parts
  /\ UNCHANGED listVars
  /\ UNCHANGED tempVars

\* new Path(...parts) is about to run on some argument list.
CtorInit ==
  /\ parts \in ArgLists
  /\ location = Undefined

InitCtor == CtorInit /\ ListIdle /\ TempInit

CtorNext == Construct

SpecCtor == InitCtor /\ [][CtorNext]_vars

Constructed == location # Undefined

\* C17 as claimed: after construction the location is never the empty string, whatever
\* the argument list; with no segments it is the current working directory.
C17_LocationNeverEmpty ==
  Constructed =>
    /\ location[1] # <<>>
    /\ parts = <<>> => location[1] = cwd

\* C17, amended: after construction the location is the empty string only when the
\* argument list is the one empty string; with no segments it is the current working
\* directory.
C17_LocationEmptyOnlyForOneEmptySegment ==
  Constructed =>
    /\ location[1] = <<>> <=> parts = << <<>> >>
    /\ parts = <<>> => location[1] = cwd

\* A Path was made from several segments, all of them empty: its location is '.'.
C17_Witness ==
  /\ Constructed
  /\ Len(parts) = MaxParts /\ \A j \in 1..Len(parts) : parts[j] = <<>>
  /\ location[1] = Dot


(***************************************************************************)
(* What a destroy leaves in the registry.                                  *)
(***************************************************************************)

\* This step completes a destroy of the handle h: destroySync(h) whose rmSync
\* succeeded, or a destroy(h) resuming after its rm.
DestroyCompletes(h) ==
  \/ destroySync(h) /\ Rm(h).code = <<>>
  \/ \E op \in ops : op.path = h /\ destroyResume(op)

\* C18 as claimed: after destroy() on one handle completes, the registry is empty,
\* however many handles were allocated before.
C18_DestroyEmptiesRegistry ==
  [][\A h \in handles : DestroyCompletes(h) => tempDirCleanup' = <<>>]_vars

\* C18, amended: after destroy() on one handle completes, the registry holds the
\* locations it held before except that handle's: it is empty only if no other location
\* was registered.
C18_DestroyDropsOnlyItsLocation ==
  [][\A h \in handles :
       DestroyCompletes(h) =>
         /\ Range(tempDirCleanup') = Registered \ {h}
         /\ tempDirCleanup' = <<>> <=> Registered \subseteq {h}]_vars

\* A destroy has completed and another location is still registered.
C18_Witness ==
  /\ DestroyedOk # {}
  /\ ops = {}
  /\ \E p \in Registered : p \notin DestroyedOk /\ Exists(p)

\* b is a temporary directory made inside the temporary directory a.
Inside(b, a) == a # b /\ IsPrefix(a, b)

\* C19: when a temporary directory b was made inside a temporary directory a, a destroy
\* of a removes both from disk; b's location stays registered (unless b's own destroy
\* succeeded earlier); the exit sweep finds b absent, swallows that, and if it raises an
\* error at all it is for another, unremovable location.
C19_NestedDirectoryGoesWithParent ==
  \A a \in handles : \A b \in handles :
    (Inside(b, a) /\ a \in Destroyed) =>
      /\ ~Exists(a) /\ ~Exists(b)
      /\ b \notin DestroyedOk => b \in Registered
      /\ \A j \in 1..Len(attempted) :
           attempted[j].path = b => attempted[j].code = <<"ENOENT">>
      /\ sweepError # <<>> => Last(attempted).path \in locked \ {b}
      /\ (phase = "exited" /\ locked = {}) => sweepError = <<>>

\* a was destroyed with b inside it, and the exit sweep has run over b's location, found
\* it absent and ended without error.
C19_Witness ==
  /\ phase = "exited" /\ sweepError = <<>>
  /\ \E a \in DestroyedOk : \E b \in handles :
       /\ Inside(b, a)
       /\ attempted = <<[path |-> b, code |-> <<"ENOENT">>]>>


(***************************************************************************)
(* maxDepth: 1.                                                            *)
(***************************************************************************)

\* The immediate entries of the directory p that a list of p yields.
ImmediateEntries(p) ==
  {e.path : e \in {x \in Entries : Front(x.path) = p /\ NameShown(Last(x.path))
                                    /\ (x.isDir => IsTrue(options.dir))}}

C21_MaxDepthZeroDoesNotRecurse ==
  (IsTrue(options.recursive) /\ options.maxDepth = Some(0)) =>
    /\ \A p \in Yielded : Front(p) = Root
    /\ Read \subseteq {Root}

\* C22: list yields in depth-first pre-order along the provider's enumeration order: of
\* any two delivered paths the earlier one is an ancestor of the later one, or stands,
\* where the two part, on the branch that the directory read returned first. So the
\* entries of one directory come in readdir order, a directory comes before its
\* descendants, and everything inside a directory comes before its next sibling.
C22_YieldsInPreOrder ==
  \A i \in 1..Len(out) : \A j \in 1..Len(out) :
    i < j => ComesBefore(out[i], out[j])

\* A full walk delivered, in a directory below the root, f before d as readdir gave
\* them (not sorted), then something inside d, and in the root the sibling f that
\* follows d only after everything inside d.
C22_Witness ==
  /\ status = "done" /\ IsTrue(options.dir) /\ denied = {}
  /\ \E i \in 1..Len(out) : \E j \in 1..Len(out) : \E k \in 1..Len(out) :
       /\ i < j /\ j < k
       /\ out[i] = <<nD>> /\ out[j] = <<nD, nF>> /\ out[j + 1] = <<nD, nD>>
       /\ Inside(out[k - 1], <<nD>>) /\ out[k] = <<nF>>


\* A list that is consumed to its end: the consumer asks again after every item (for
\* await), and the event loop runs the generator whenever it can go on.
SpecListFair == InitList /\ [][ListNext]_vars /\ WF_vars(ListNext)

\* Nothing is delivered twice.
EachEntryOnce == Len(out) = Cardinality(Yielded)

\* C23: on a finite tree a fully consumed list comes to its end, whatever dir, hidden,
\* recursive and maxDepth are (maxDepth 0 and below included): it completes, or fails
\* on a directory it cannot read, having yielded each entry of the tree at most once.
C23_FullyConsumedListEnds ==
  /\ <>(status \in {"done", "failed"})
  /\ (denied = {}) => <>(status = "done")
  /\ []EachEntryOnce

\* A recursive walk with a maxDepth of 0 or below went to the bottom of a tree of full
\* depth and completed.
C23_Witness ==
  /\ status = "done" /\ IsTrue(options.recursive)
  /\ options.maxDepth # Undefined /\ options.maxDepth[1] <= 0
  /\ Len(tree) = TreeDepth
  /\ \E p \in Yielded : Depth(p) = TreeDepth


(***************************************************************************)
(* The registry under allocation, destruction and interleaving.            *)
(***************************************************************************)

\* C24: in every reachable state no location appears twice in the registry, whatever
\* tempDir, tempDirSync, destroy and destroySync calls were made.
C24_NoLocationRegisteredTwice ==
  Len(tempDirCleanup) = Cardinality(Registered)

\* Two temporary directories are registered in a run in which a call has also failed.
C24_Witness ==
  /\ Len(tempDirCleanup) = 2
  /\ \E e \in log : e.ev = "destroyFailed" \/ e.ev = "tempDirFailed"

\* This step removes the directory of the handle h from disk on behalf of a destroy.
DestroyRemoves(h) ==
  \/ destroySync(h) /\ Rm(h).code = <<>>
  \/ \E op \in ops : op.path = h /\ RmDone(op)

\* C25: a destroy takes out of the registry exactly the entries equal to the destroyed
\* handle's location, the others staying in their order, and removes from disk exactly
\* the destroyed directory and what lies inside it: directories of other handles that
\* are not inside it are left alone.
C25_DestroyTouchesOnlyItsOwn ==
  [][\A h \in handles :
       /\ DestroyCompletes(h) =>
            tempDirCleanup' = SelectSeq(tempDirCleanup, LAMBDA q : q # h)
       /\ DestroyRemoves(h) => disk' = {q \in disk : ~IsPrefix(h, q)}]_vars

\* One directory was destroyed; another one, made before it and not inside it, is still
\* registered and on disk with the file written into it.
C25_Witness ==
  \E a \in DestroyedOk : \E b \in handles :
    /\ ~IsPrefix(a, b) /\ ~IsPrefix(b, a)
    /\ tempDirCleanup = <<b>>
    /\ Exists(b) /\ Exists(Resolve(b, nF))

\* C26: whatever the interleaving of asynchronous tempDir() and destroy() calls, once
\* none is in flight the registry holds exactly the locations that were allocated and
\* whose destroy did not succeed: no push and no removal was lost or undone.
C26_NoRegistryUpdateLost ==
  ops = {} =>
    /\ handles = Created
    /\ Registered = Created \ DestroyedOk

\* All calls of a run are over: a directory made last was destroyed, one made before it
\* is still registered.
C26_Witness ==
  /\ ops = {} /\ nCalls = MaxCalls /\ phase = "running"
  /\ \E a \in DestroyedOk : \E b \in Registered : Last(tempDirCleanup) = b /\ a # b


(***************************************************************************)
(* Failing and repeated destroys.                                          *)
(***************************************************************************)

\* This step is a destroy of the handle h whose removal fails.
DestroyFails(h) ==
  \/ destroySync(h) /\ Rm(h).code # <<>>
  \/ \E op \in ops : op.path = h /\ RmFailed(op)

\* The caller of the destroy of h has the error the removal gave.
CallerHasError(h, code) == Event("destroyFailed", h, code) \in log'

\* A location whose destroy failed and never succeeded is registered, and the exit sweep
\* tries it when it comes to its place.
FailedStaysRegistered(h) ==
  (Happened("destroyFailed", h) /\ h \notin DestroyedOk) =>
    /\ h \in Registered
    /\ \A j \in 1..Len(tempDirCleanup) :
         (tempDirCleanup[j] = h /\ sweepIdx > j) => attempted[j].path = h
    /\ (phase = "exited" /\ sweepError = <<>>) => h \in Attempted

\* C27: when the removal inside destroy()/destroySync() fails, the caller gets the
\* removal's error and the registry is left as it was: the location is still registered,
\* so the exit sweep tries to remove it again when it comes to it.
C27_FailedDestroyStaysRegistered ==
  /\ [](\A h \in handles : FailedStaysRegistered(h))
  /\ [][\A h \in handles :
          DestroyFails(h) =>
            (CallerHasError(h, Rm(h).code) /\ tempDirCleanup' = tempDirCleanup)]_vars

\* The destroy of an unremovable directory failed, and the exit sweep has tried it again.
C27_Witness ==
  \E h \in handles :
    /\ Event("destroyFailed", h, <<"EACCES">>) \in log
    /\ h \in Registered
    /\ \E j \in 1..Len(attempted) : attempted[j].path = h


\* The destroy of h ends with a does-not-exist error and nothing else happens.
FailsAsAbsent(h) ==
  /\ log' = log \cup {Event("destroyFailed", h, <<"ENOENT">>)}
  /\ tempDirCleanup' = tempDirCleanup
  /\ disk' = disk

\* C28: destroy is not idempotent: a destroy()/destroySync() on a handle whose directory
\* is no longer on disk (removed by an earlier destroy or with an enclosing temporary
\* directory) fails with a does-not-exist error, never succeeds silently, and leaves the
\* registry as it was.
C28_DestroyOfAbsentDirectoryFails ==
  [][\A h \in handles :
       ~Exists(h) =>
         /\ destroySync(h) => FailsAsAbsent(h)
         /\ \A op \in ops :
              (op.path = h /\ (RmDone(op) \/ RmFailed(op))) => FailsAsAbsent(h)]_vars

\* A second destroy of a handle whose first destroy had succeeded has failed.
C28_Witness ==
  \E h \in DestroyedOk : Event("destroyFailed", h, <<"ENOENT">>) \in log


(***************************************************************************)
(* The exit sweep: where it stops, and destroys in flight.                  *)
(***************************************************************************)

\* The removal failed for a reason other than does-not-exist.
HardFailure(code) == code # <<>> /\ code # <<"ENOENT">>

\* The sweep goes through the registry in registration order, and its first removal
\* that fails for a reason other than does-not-exist is its last one and its error.
SweepInOrderUntilFailure ==
  /\ Len(attempted) <= Len(tempDirCleanup)
  /\ \A j \in 1..Len(attempted) :
       /\ attempted[j].path = tempDirCleanup[j]
       /\ HardFailure(attempted[j].code) =>
            (j = Len(attempted) /\ phase = "exited" /\ sweepError = attempted[j].code)
  /\ sweepError # <<>> => (attempted # <<>> /\ HardFailure(Last(attempted).code))

\* The locations registered after the one the sweep failed on.
AfterFailure ==
  IF sweepError = <<>> THEN {}
  ELSE {tempDirCleanup[j] : j \in (Len(attempted) + 1)..Len(tempDirCleanup)}

\* C29 as claimed: the sweep takes the registered locations in registration order and
\* stops at the first removal that fails for a reason other than does-not-exist; the
\* locations registered after it are not removed and remain on disk.
C29_SweepStopsAndLeavesTheRestOnDisk ==
  /\ SweepInOrderUntilFailure
  /\ \A p \in AfterFailure : p \notin Attempted /\ Exists(p)

\* C29, amended: the same, except that a location registered after the failing one is
\* on disk only if it was there when the sweep came to a stop: it may have been removed
\* by a destroy that had not deregistered it yet, or with a directory around it.
C29_SweepStopsAndLeavesTheRestAlone ==
  /\ SweepInOrderUntilFailure
  /\ \A p \in AfterFailure :
       /\ p \notin Attempted /\ p \notin Swept
       /\ Exists(p) \/ p \in Destroyed \/ RemovedWithParent(p)

\* The sweep failed on an unremovable directory and left a later registered one on disk.
C29_Witness ==
  /\ phase = "exited" /\ sweepError = <<"EACCES">>
  /\ \E p \in AfterFailure : Exists(p) /\ ~(\E q \in locked : IsPrefix(q, p))


\* The destroy() calls, on a temp directory no earlier call has destroyed, whose removal
\* has been started or has finished and whose line 632 has not run.
InFlight ==
  {op \in ops : op.kind = "destroy" /\ op.pc \in {"rm", "removed"} /\ op.path \notin DestroyedOk}

\* The results of the sweep's removal attempts on p.
AttemptCodes(p) == {attempted[j].code : j \in {i \in 1..Len(attempted) : attempted[i].path = p}}

\* The sweep came to p, and its removal there removed p or found it gone.
SweptOrGone(p) == AttemptCodes(p) # {} /\ AttemptCodes(p) \subseteq {<<>>, <<"ENOENT">>}

\* C30 as claimed: if the process exits while a destroy() is in flight, the sweep finds
\* the location registered, its removal attempt removes the directory or hits
\* does-not-exist, and the sweep finishes without error with the directory absent.
C30_SweepFinishesCleanlyOverInFlightDestroy ==
  \A op \in InFlight :
    /\ phase # "running" => op.path \in Registered
    /\ phase = "exited" =>
         (SweptOrGone(op.path) /\ sweepError = <<>> /\ ~Exists(op.path))

\* C30, amended: the location of a destroy() in flight at exit is still registered; the
\* sweep's attempt on it hits does-not-exist if the removal had finished; and unless a
\* removal of the sweep fails for another reason than does-not-exist, the sweep comes
\* to it, removes it or finds it gone, and ends with the directory absent from disk.
C30_SweepCoversInFlightDestroy ==
  \A op \in InFlight :
    /\ phase # "running" => op.path \in Registered
    /\ op.pc = "removed" => AttemptCodes(op.path) \subseteq {<<"ENOENT">>}
    /\ (phase = "exited" /\ sweepError = <<>>) =>
         (SweptOrGone(op.path) /\ ~Exists(op.path))

\* The process exited with two destroys in flight, one ahead of its removal and one
\* past it: the sweep removed the first directory and found the second gone.
C30_Witness ==
  /\ phase = "exited" /\ sweepError = <<>>
  /\ \E a \in InFlight : a.pc = "rm" /\ a.path \in Swept
  /\ \E b \in InFlight : b.pc = "removed" /\ AttemptCodes(b.path) = {<<"ENOENT">>}

=============================================================================
